---- MODULE Spec2Model ----
(***************************************************************************)
(* A model of the recommendation engine of recommend.py: BaseRecommender   *)
(* (load, cached vector lookup, batch generation), SimpleRecommender and   *)
(* AdvancedRecommender (scoring), and the factory that constructs them.    *)
(*                                                                         *)
(* Numbers.  Vector components are small integers.  A similarity, a        *)
(* freshness or a topic value is held as an integer number of millionths   *)
(* (the magnitude truncated), a weight as an integer number of tenths, and *)
(* a reported score, rounded to four decimals by round(x, 4), as an        *)
(* integer number of ten-thousandths.                                      *)
(*                                                                         *)
(* numpy.  A ragged list of vectors is rejected with ValueError by         *)
(* np.mean(..., axis=0) and np.array(...) (numpy >= 1.24), and             *)
(* cosine_similarity rejects operands of different dimension.              *)
(***************************************************************************)
EXTENDS Integers, Sequences, FiniteSets, TLC

----------------------------------------------------------------------------
(* Bounds of the model *)

\* top_n ranges over -1 .. MaxTopN
MaxTopN == 2
\* a read list passed to recommend_for_user has at most MaxReads entries
MaxReads == 2
\* the clock runs from 0, when the engine is constructed, to MaxClock
MaxClock == 1
\* clock ticks per day
TicksPerDay == 2
\* maxsize of the lookup cache chosen at construction
MaxCacheSize == 1
MaxLruSize == 2
MaxLookups == 4
MaxPicks == 3

\* the fixed-point scale of similarities
Million == 1000 * 1000

----------------------------------------------------------------------------
(* Small helpers on sequences *)

Range(s) == {s[i] : i \in 1..Len(s)}

Contains(s, x) == \E i \in 1..Len(s) : s[i] = x

Abs(x) == IF x < 0 THEN -x ELSE x

Min(x, y) == IF x <= y THEN x ELSE y

Max(x, y) == IF x >= y THEN x ELSE y

RECURSIVE SeqSum(_)
SeqSum(s) == IF s = <<>> THEN 0 ELSE Head(s) + SeqSum(Tail(s))

\* Python's list.count
Count(s, x) == Cardinality({i \in 1..Len(s) : s[i] = x})

\* all sequences over S of length at most n
SeqsUpTo(S, n) == UNION {[1..k -> S] : k \in 0..n}

----------------------------------------------------------------------------
(* Cosine similarity (sklearn.metrics.pairwise.cosine_similarity)          *)

Dot(u, v) == SeqSum([i \in 1..Len(u) |-> u[i] * v[i]])

Norm2(u) == Dot(u, u)

\* s*s*n <= 10^12 * d2, computed in two limbs of base 10^6 so that no
\* intermediate value leaves the 32-bit range
SquareLeq(s, n, d2) ==
    LET sh  == s \div 1000
        sl  == s % 1000
        t   == 2 * sh * sl
        lo0 == (t % 1000) * 1000 + sl * sl
        hi0 == sh * sh + (t \div 1000)
        lo1 == lo0 * n
        hi1 == hi0 * n + (lo1 \div Million)
        lo2 == lo1 % Million
        rhs == Million * d2
    IN  hi1 < rhs \/ (hi1 = rhs /\ lo2 = 0)

\* the largest s in lo..hi with s*s*n <= 10^12 * d2 (lo satisfies it)
RECURSIVE SqrtSearch(_, _, _, _)
SqrtSearch(lo, hi, n, d2) ==
    IF lo = hi THEN lo
    ELSE LET mid == (lo + hi + 1) \div 2
         IN  IF SquareLeq(mid, n, d2)
             THEN SqrtSearch(mid, hi, n, d2)
             ELSE SqrtSearch(lo, mid - 1, n, d2)

\* cosine of two vectors of the same dimension, in millionths; a zero vector
\* is left unnormalised by sklearn and so has similarity 0 to everything.
\* The cosine is invariant under scaling, so the mean of the read vectors may
\* be given by their sum.
CosineSimilarity(u, v) ==
    LET d == Dot(u, v)
        n == Norm2(u) * Norm2(v)
    IN  IF n = 0 \/ d = 0 THEN 0
        ELSE LET m == SqrtSearch(0, Million, n, d * d)
             IN  IF d < 0 THEN -m ELSE m

\* round(x, 4) of a value given in units of 1/unit of a ten-thousandth
RoundTo4(x, unit) ==
    IF x >= 0 THEN (2 * x + unit) \div (2 * unit)
    ELSE -((2 * (-x) + unit) \div (2 * unit))

----------------------------------------------------------------------------
(* Python dicts (insertion-ordered): the keys in order, and the values     *)

EmptyDict == [keys |-> <<>>, val |-> <<>>]

DictHas(d, k) == k \in DOMAIN d.val

----------------------------------------------------------------------------
(* The persisted stores                                                    *)
(* An item of the embeddings store: its 'vector' field (a list, absent, or *)
(* not a list), its optional 'cluster' label, its optional 'metadata' and  *)
(* the metadata's 'scraped_at' (a parseable timestamp given in clock       *)
(* ticks relative to the construction of the engine, absent, an            *)
(* unparseable string, or a JSON value that is not a string).              *)

MkItem(vk, v, hc, c, hm, tk, ts) ==
    [vkind |-> vk, vector |-> v, has_cluster |-> hc, cluster |-> c,
     has_metadata |-> hm, ts_kind |-> tk, scraped_at |-> ts]

\* items stored under id "a": one of the common dimension 3, one shorter,
\* one without a vector
ItemsA ==
    { MkItem("list", <<1, 0, 0>>, TRUE, 0, TRUE, "ok", -1),
      MkItem("list", <<1, 0>>, TRUE, 0, TRUE, "ok", 0),
      MkItem("absent", <<>>, FALSE, 0, TRUE, "ok", 0) }

\* items stored under id "b"
ItemsB ==
    { MkItem("list", <<0, 1, 0>>, TRUE, 1, TRUE, "ok", 0),
      MkItem("list", <<1, 1, 0>>, FALSE, 0, TRUE, "absent", 0),
      MkItem("list", <<1, 0, 0, 1>>, TRUE, -1, TRUE, "bad", 0),
      MkItem("list", <<>>, TRUE, 1, TRUE, "ok", 0) }

\* items stored under id "c" (the store may have no such id)
ItemsC ==
    { MkItem("list", <<1, 1, 0>>, TRUE, 0, FALSE, "absent", 0),
      MkItem("list", <<-1, 1, 0>>, TRUE, 1, TRUE, "ok", 1),
      MkItem("list", <<1, 0, 0>>, TRUE, -1, TRUE, "ok", -2),
      MkItem("notlist", <<>>, FALSE, 0, TRUE, "ok", 0),
      MkItem("list", <<1, 0, 0>>, TRUE, 0, TRUE, "ok", -2),
      MkItem("list", <<0, 1, 1>>, TRUE, 1, TRUE, "notstring", 0),
      MkItem("list", <<0, 1>>, TRUE, 1, TRUE, "ok", 0) }

MkStore(a, b, cs) ==
    [readable |-> TRUE,
     keys |-> IF cs = <<>> THEN <<"a", "b">> ELSE <<"a", "b", "c">>,
     val |-> IF cs = <<>> THEN [k \in {"a", "b"} |-> IF k = "a" THEN a ELSE b]
             ELSE [k \in {"a", "b", "c"} |->
                      IF k = "a" THEN a ELSE IF k = "b" THEN b ELSE cs[1]]]

UnreadableStore == [readable |-> FALSE, keys |-> <<>>, val |-> <<>>]

EmbedStores ==
    {MkStore(a, b, cs) : a \in ItemsA, b \in ItemsB,
                         cs \in {<<>>} \cup {<<c>> : c \in ItemsC}}
    \cup {UnreadableStore}

\* ids a caller may name in a read list: "z" is in no store
ReadIds == {"a", "b", "z"}

\* a profile value: a list of item ids, or (malformed) a non-zero number
ListProfile(r) == [kind |-> "list", reads |-> r]

NumberProfile == [kind |-> "number", reads |-> <<>>]

Profiles ==
    { ListProfile(<<>>), ListProfile(<<"a">>), ListProfile(<<"b", "a">>),
      ListProfile(<<"z">>), NumberProfile }

MkProfiles(p1, p2) ==
    [readable |-> TRUE, keys |-> <<"u1", "u2">>,
     val |-> [u \in {"u1", "u2"} |-> IF u = "u1" THEN p1 ELSE p2]]

ProfileStores == {MkProfiles(p1, p2) : p1 \in Profiles, p2 \in Profiles}

----------------------------------------------------------------------------
VARIABLES
    embed_file,        \* content of the embeddings store
    profile_file,      \* content of the profiles store
    output_file,       \* content of the output store, and how often written
    phase,             \* "new", "ready" (constructed) or "failed"
    kind,              \* "simple" or "advanced"
    article_vectors,   \* self.article_vectors
    article_ids,       \* self.article_ids
    vector_array,      \* self.vector_array
    user_profiles,     \* self.user_profiles
    cache,             \* the lru_cache of _get_article_vector, LRU first
    cache_size,        \* its maxsize
    diversity_weight,  \* in tenths
    cluster_weight,    \* in tenths
    time_decay_days,
    now,               \* datetime.now(), in clock ticks
    last               \* the last call made and what it returned

vars == <<embed_file, profile_file, output_file, phase, kind, article_vectors,
          article_ids, vector_array, user_profiles, cache, cache_size,
          diversity_weight, cluster_weight, time_decay_days, now, last>>

----------------------------------------------------------------------------
(* BaseRecommender._load_data                                              *)

\* faulty variant: the test for an empty list is forgotten
ValidArticleAnyList(data) == data.vkind = "list"

ValidArticle(data) == data.vkind = "list" /\ Len(data.vector) > 0

\* faulty variant: long vectors are not truncated
RepairVectorPadOnly(vector, expected_length) ==
    IF Len(vector) < expected_length
    THEN vector \o [i \in 1..(expected_length - Len(vector)) |-> 0]
    ELSE vector

\* pad with zeros or truncate to the expected length
RepairVector(vector, expected_length) ==
    IF Len(vector) < expected_length
    THEN vector \o [i \in 1..(expected_length - Len(vector)) |-> 0]
    ELSE SubSeq(vector, 1, expected_length)

\* The fields of self after _load_data and the exception it raised, given
\* the fields before.  The raw mapping and the profiles are assigned before
\* the filter runs, the filtered mapping and the id list before the
\* emptiness test, the array last.
load_data(self, ef, pf) ==
    IF ~ef.readable THEN [self EXCEPT !.raised = "OSError"]
    ELSE IF ~pf.readable
    THEN [self EXCEPT !.article_vectors = [keys |-> ef.keys, val |-> ef.val],
                      !.raised = "OSError"]
    ELSE
    LET valid_keys == SelectSeq(ef.keys, LAMBDA k : ValidArticle(ef.val[k]))
        valid_articles ==
            [keys |-> valid_keys,
             val |-> [k \in Range(valid_keys) |-> ef.val[k]]]
        profiles == [keys |-> pf.keys, val |-> pf.val]
    IN  IF valid_keys = <<>>
        THEN [self EXCEPT !.article_vectors = valid_articles,
                          !.article_ids = <<>>,
                          !.user_profiles = profiles,
                          !.raised = "ValueError"]
        ELSE LET expected_length == Len(ef.val[valid_keys[1]].vector)
             IN  [article_vectors |-> valid_articles,
                  article_ids |-> valid_keys,
                  vector_array |->
                      [i \in 1..Len(valid_keys) |->
                          RepairVector(ef.val[valid_keys[i]].vector,
                                       expected_length)],
                  user_profiles |-> profiles,
                  raised |-> "none"]

\* the fields of an object on which _load_data has not run yet
Unloaded ==
    [article_vectors |-> EmptyDict, article_ids |-> <<>>,
     vector_array |-> <<>>, user_profiles |-> EmptyDict, raised |-> "none"]

----------------------------------------------------------------------------
(* BaseRecommender._initialize_caches, _get_article_vector                 *)
(* functools.lru_cache around the lookup: a hit returns the stored value   *)
(* and makes the entry the most recently used; a miss calls the lookup on  *)
(* self.article_vectors, and stores the value unless the call raised,      *)
(* evicting the least recently used entry of a full cache.                 *)

CacheIndex(c, article_id) ==
    IF \E i \in 1..Len(c) : c[i].key = article_id
    THEN CHOOSE i \in 1..Len(c) : c[i].key = article_id
    ELSE 0

RemoveAt(s, i) == SubSeq(s, 1, i - 1) \o SubSeq(s, i + 1, Len(s))

\* faulty variant: a full cache gives up its most recently used entry
CacheInsertEvictNewest(c, size, entry) ==
    IF size <= 0 THEN c
    ELSE IF Len(c) >= size THEN SubSeq(c, 1, Len(c) - 1) \o <<entry>>
    ELSE c \o <<entry>>

CacheInsert(c, size, entry) ==
    IF size <= 0 THEN c
    ELSE IF Len(c) >= size THEN Tail(c) \o <<entry>>
    ELSE c \o <<entry>>

\* faulty variant: the array handed out earlier was negated in place by its
\* caller, so a hit returns the altered array
get_article_vector_altered(c, size, av, article_id) ==
    LET i == CacheIndex(c, article_id)
    IN  IF i > 0
        THEN [vector |-> [j \in 1..Len(c[i].vector) |-> -c[i].vector[j]],
              raised |-> "none",
              cache |-> RemoveAt(c, i) \o <<c[i]>>]
        ELSE IF ~DictHas(av, article_id) \/ av.val[article_id].vkind = "absent"
        THEN [vector |-> <<>>, raised |-> "KeyError", cache |-> c]
        ELSE LET v == av.val[article_id].vector
             IN  [vector |-> v, raised |-> "none",
                  cache |-> CacheInsert(c, size,
                                        [key |-> article_id, vector |-> v])]

get_article_vector(c, size, av, article_id) ==
    LET i == CacheIndex(c, article_id)
    IN  IF i > 0
        THEN [vector |-> c[i].vector, raised |-> "none",
              cache |-> RemoveAt(c, i) \o <<c[i]>>]
        ELSE IF ~DictHas(av, article_id) \/ av.val[article_id].vkind = "absent"
        THEN [vector |-> <<>>, raised |-> "KeyError", cache |-> c]
        ELSE LET v == av.val[article_id].vector
             IN  [vector |-> v, raised |-> "none",
                  cache |-> CacheInsert(c, size,
                                        [key |-> article_id, vector |-> v])]

----------------------------------------------------------------------------
(* The two loops shared by both recommend_for_user methods                 *)

ReadAppend(vector, clusters, rest) ==
    [rest EXCEPT !.user_vecs = <<vector>> \o @,
                 !.user_clusters = clusters \o @]

\* lines 140-145 and 272-280: the vectors (and cluster labels) of the read
\* items that the mapping passed by the caller knows
RECURSIVE ReadLoop(_, _, _, _, _)
ReadStep(reads, param, self_av, size, r) ==
    IF r.raised # "none"
    THEN [user_vecs |-> <<>>, user_clusters |-> <<>>, cache |-> r.cache,
          raised |-> r.raised]
    ELSE ReadAppend(r.vector,
                    IF param.val[Head(reads)].has_cluster
                    THEN <<param.val[Head(reads)].cluster>>
                    ELSE <<>>,
                    ReadLoop(Tail(reads), param, self_av, r.cache, size))

ReadLoop(reads, param, self_av, c, size) ==
    IF reads = <<>>
    THEN [user_vecs |-> <<>>, user_clusters |-> <<>>, cache |-> c,
          raised |-> "none"]
    ELSE IF ~DictHas(param, Head(reads))
    THEN ReadLoop(Tail(reads), param, self_av, c, size)
    ELSE ReadStep(reads, param, self_av, size,
                  get_article_vector(c, size, self_av, Head(reads)))

CandidateAppend(aid, vector, cluster, rest) ==
    [rest EXCEPT !.candidate_ids = <<aid>> \o @,
                 !.candidate_vectors = <<vector>> \o @,
                 !.candidate_clusters = <<cluster>> \o @]

\* lines 153-158 and 288-298: the corpus ids not in the read list, with
\* their vectors; the Advanced loop also reads the cluster label from the
\* mapping passed by the caller (-1 when the item has none)
RECURSIVE CandidateLoop(_, _, _, _, _, _, _)
CandidateStep(ids, reads, param, self_av, size, advanced, r) ==
    IF r.raised # "none" \/ (advanced /\ ~DictHas(param, Head(ids)))
    THEN [candidate_ids |-> <<>>, candidate_vectors |-> <<>>,
          candidate_clusters |-> <<>>, cache |-> r.cache,
          raised |-> IF r.raised # "none" THEN r.raised ELSE "KeyError"]
    ELSE CandidateAppend(Head(ids), r.vector,
             IF advanced /\ param.val[Head(ids)].has_cluster
             THEN param.val[Head(ids)].cluster
             ELSE -1,
             CandidateLoop(Tail(ids), reads, param, self_av, r.cache, size,
                           advanced))

\* faulty variant: the read items are not left out of the candidates
CandidateLoopUnfiltered(ids, reads, param, self_av, c, size, advanced) ==
    IF ids = <<>>
    THEN [candidate_ids |-> <<>>, candidate_vectors |-> <<>>,
          candidate_clusters |-> <<>>, cache |-> c, raised |-> "none"]
    ELSE CandidateStep(ids, reads, param, self_av, size, advanced,
                       get_article_vector(c, size, self_av, Head(ids)))

CandidateLoop(ids, reads, param, self_av, c, size, advanced) ==
    IF ids = <<>>
    THEN [candidate_ids |-> <<>>, candidate_vectors |-> <<>>,
          candidate_clusters |-> <<>>, cache |-> c, raised |-> "none"]
    ELSE IF Contains(reads, Head(ids))
    THEN CandidateLoop(Tail(ids), reads, param, self_av, c, size, advanced)
    ELSE CandidateStep(ids, reads, param, self_av, size, advanced,
                       get_article_vector(c, size, self_av, Head(ids)))

\* np.mean(user_vecs, axis=0), given as the sum of the vectors: the mean
\* times their number, which has the same cosine to every vector
VecSum(vecs) ==
    [i \in 1..Len(vecs[1]) |-> SeqSum([j \in 1..Len(vecs) |-> vecs[j][i]])]

SameLength(vecs) == \A i, j \in 1..Len(vecs) : Len(vecs[i]) = Len(vecs[j])

\* np.array(candidate_vectors) and cosine_similarity accept the operands
Comparable(user_vecs, candidate_vectors) ==
    /\ SameLength(candidate_vectors)
    /\ Len(candidate_vectors[1]) = Len(user_vecs[1])

\* recommendations.sort(key=score, reverse=True): stable, so records of
\* equal score keep their order
\* faulty variant: a record is put before the records of equal score
RECURSIVE InsertDescBeforeEquals(_, _)
InsertDescBeforeEquals(sorted, rec) ==
    IF sorted = <<>> THEN <<rec>>
    ELSE IF sorted[1].score > rec.score
         THEN <<sorted[1]>> \o InsertDescBeforeEquals(Tail(sorted), rec)
         ELSE <<rec>> \o sorted

RECURSIVE InsertDesc(_, _)
InsertDesc(sorted, rec) ==
    IF sorted = <<>> THEN <<rec>>
    ELSE IF sorted[1].score >= rec.score
         THEN <<sorted[1]>> \o InsertDesc(Tail(sorted), rec)
         ELSE <<rec>> \o sorted

RECURSIVE SortDesc(_)
SortDesc(recs) ==
    IF recs = <<>> THEN <<>>
    ELSE InsertDesc(SortDesc(SubSeq(recs, 1, Len(recs) - 1)), recs[Len(recs)])

\* faulty variant: the slice keeps one record too many
SliceOneMore(recs, top_n) ==
    IF top_n >= 0 THEN SubSeq(recs, 1, Min(top_n + 1, Len(recs)))
    ELSE SubSeq(recs, 1, Max(0, Len(recs) + top_n))

\* recommendations[:top_n]
Slice(recs, top_n) ==
    IF top_n >= 0 THEN SubSeq(recs, 1, Min(top_n, Len(recs)))
    ELSE SubSeq(recs, 1, Max(0, Len(recs) + top_n))

Reverse(s) == [i \in 1..Len(s) |-> s[Len(s) + 1 - i]]

\* faulty variant: the sort is ascending (reverse=True forgotten)
SortAscendingAndSlice(recommendations, top_n) ==
    Slice(Reverse(SortDesc(recommendations)), top_n)

\* lines 179-181 and 347-349
SortAndSlice(recommendations, top_n) ==
    Slice(SortDesc(recommendations), top_n)

SimpleKeys == {"article_id", "title", "url", "score"}

AdvancedKeys == SimpleKeys \cup {"content", "similarity_components"}

Returned(recs, c) == [ret |-> recs, raised |-> "none", cache |-> c]

Raised(e, c) == [ret |-> <<>>, raised |-> e, cache |-> c]

----------------------------------------------------------------------------
(* SimpleRecommender.recommend_for_user                                    *)
(* self: the fields of the recommender; param: the article_vectors         *)
(* argument; user_reads: the profile value passed.  The result is the list *)
(* returned or the exception raised, and the cache as the call leaves it.  *)

SimpleRecord(aid, similarity) ==
    [article_id |-> aid, score |-> RoundTo4(similarity, 100),
     keys |-> SimpleKeys, semantic |-> 0, freshness |-> 0, topic |-> 0]

\* lines 160-181, given the read vectors and the candidates
SimpleScore(param, top_n, user_vecs, cl) ==
    IF cl.raised # "none" THEN Raised(cl.raised, cl.cache)
    ELSE IF cl.candidate_ids = <<>> THEN Returned(<<>>, cl.cache)
    ELSE IF ~Comparable(user_vecs, cl.candidate_vectors)
    THEN Raised("ValueError", cl.cache)
    ELSE IF \E i \in 1..Len(cl.candidate_ids) :
               \/ ~DictHas(param, cl.candidate_ids[i])
               \/ ~param.val[cl.candidate_ids[i]].has_metadata
    THEN Raised("KeyError", cl.cache)
    ELSE Returned(
             SortAndSlice(
                 [i \in 1..Len(cl.candidate_ids) |->
                     SimpleRecord(cl.candidate_ids[i],
                         CosineSimilarity(VecSum(user_vecs),
                                          cl.candidate_vectors[i]))],
                 top_n),
             cl.cache)

\* lines 147-158, given the outcome of the loop over the read list
SimpleCandidates(self, param, reads, top_n, rl) ==
    IF rl.raised # "none" THEN Raised(rl.raised, rl.cache)
    ELSE IF rl.user_vecs = <<>> THEN Returned(<<>>, rl.cache)
    ELSE IF ~SameLength(rl.user_vecs) THEN Raised("ValueError", rl.cache)
    ELSE SimpleScore(param, top_n, rl.user_vecs,
             CandidateLoop(self.article_ids, reads, param,
                           self.article_vectors, rl.cache, self.cache_size,
                           FALSE))

SimpleRecommend(self, param, user_reads, top_n) ==
    IF user_reads.kind = "list" /\ user_reads.reads = <<>>
    THEN Returned(<<>>, self.cache)
    ELSE IF user_reads.kind # "list" THEN Raised("TypeError", self.cache)
    ELSE SimpleCandidates(self, param, user_reads.reads, top_n,
             ReadLoop(user_reads.reads, param, self.article_vectors,
                      self.cache, self.cache_size))

----------------------------------------------------------------------------
(* AdvancedRecommender                                                     *)

\* np.exp(-days_old / time_decay_days) in millionths, tabulated
ExpDecay(days_old, tdd) ==
    CASE tdd = 30 /\ days_old = -2 -> 1068939
      [] tdd = 30 /\ days_old = -1 -> 1033895
      [] tdd = 30 /\ days_old = 0 -> 1000000
      [] tdd = 30 /\ days_old = 1 -> 967216
      [] tdd = 30 /\ days_old = 2 -> 935506
      [] tdd = 30 /\ days_old = 3 -> 904837
      [] tdd = 30 /\ days_old = 4 -> 875173

\* faulty variant: the minus sign of the exponent is forgotten
calculate_time_decay_growing(self, article_id) ==
    IF \/ ~DictHas(self.article_vectors, article_id)
       \/ ~self.article_vectors.val[article_id].has_metadata
       \/ self.article_vectors.val[article_id].ts_kind \in {"absent", "bad"}
    THEN [value |-> Million, raised |-> "none"]
    ELSE IF self.article_vectors.val[article_id].ts_kind = "notstring"
    THEN [value |-> 0, raised |-> "TypeError"]
    ELSE IF self.time_decay_days = 0
    THEN [value |-> 0, raised |-> "ZeroDivisionError"]
    ELSE [value |->
              ExpDecay(-((self.now
                            - self.article_vectors.val[article_id].scraped_at)
                         \div TicksPerDay),
                       self.time_decay_days),
          raised |-> "none"]

\* _calculate_time_decay: KeyError (no such key) and ValueError (a string
\* that does not match the format) give 1.0; strptime raises TypeError on a
\* value that is not a string, which is not caught; timedelta.days is the
\* floor of the difference in days
calculate_time_decay(self, article_id) ==
    IF \/ ~DictHas(self.article_vectors, article_id)
       \/ ~self.article_vectors.val[article_id].has_metadata
       \/ self.article_vectors.val[article_id].ts_kind \in {"absent", "bad"}
    THEN [value |-> Million, raised |-> "none"]
    ELSE IF self.article_vectors.val[article_id].ts_kind = "notstring"
    THEN [value |-> 0, raised |-> "TypeError"]
    ELSE IF self.time_decay_days = 0
    THEN [value |-> 0, raised |-> "ZeroDivisionError"]
    ELSE [value |->
              ExpDecay((self.now
                          - self.article_vectors.val[article_id].scraped_at)
                       \div TicksPerDay,
                       self.time_decay_days),
          raised |-> "none"]

\* _calculate_cluster_similarity, in millionths
calculate_cluster_similarity(user_clusters, article_cluster) ==
    IF user_clusters = <<>> THEN 0
    ELSE (Count(user_clusters, article_cluster) * Million)
            \div Len(user_clusters)

\* faulty variant: the semantic weight forgets the cluster weight
FinalScoreSemanticLeft(self, semantic_sim, time_decay, cluster_sim) ==
    semantic_sim * (10 - self.diversity_weight)
    + time_decay * self.diversity_weight
    + cluster_sim * self.cluster_weight

\* lines 328-332: the weighted score; the weights are in tenths, so the
\* result is in ten-millionths
FinalScore(self, semantic_sim, time_decay, cluster_sim) ==
    semantic_sim * (10 - self.diversity_weight - self.cluster_weight)
    + time_decay * self.diversity_weight
    + cluster_sim * self.cluster_weight

\* faulty variant: the breakdown reports freshness and topic crosswise
AdvancedRecordCrossed(self, aid, semantic_sim, time_decay, cluster_sim) ==
    [article_id |-> aid,
     score |-> RoundTo4(FinalScore(self, semantic_sim, time_decay,
                                   cluster_sim), 1000),
     keys |-> AdvancedKeys,
     semantic |-> RoundTo4(semantic_sim, 100),
     freshness |-> RoundTo4(cluster_sim, 100),
     topic |-> RoundTo4(time_decay, 100)]

\* lines 334-345
AdvancedRecord(self, aid, semantic_sim, time_decay, cluster_sim) ==
    [article_id |-> aid,
     score |-> RoundTo4(FinalScore(self, semantic_sim, time_decay,
                                   cluster_sim), 1000),
     keys |-> AdvancedKeys,
     semantic |-> RoundTo4(semantic_sim, 100),
     freshness |-> RoundTo4(time_decay, 100),
     topic |-> RoundTo4(cluster_sim, 100)]

\* lines 300-349, given the read vectors and clusters and the candidates
AdvancedScore(self, param, top_n, rl, cl) ==
    IF cl.raised # "none" THEN Raised(cl.raised, cl.cache)
    ELSE IF cl.candidate_ids = <<>> THEN Returned(<<>>, cl.cache)
    ELSE IF ~Comparable(rl.user_vecs, cl.candidate_vectors)
    THEN Raised("ValueError", cl.cache)
    ELSE IF \E i \in 1..Len(cl.candidate_ids) :
               calculate_time_decay(self, cl.candidate_ids[i]).raised # "none"
    THEN Raised(calculate_time_decay(self,
                    cl.candidate_ids[
                        CHOOSE i \in 1..Len(cl.candidate_ids) :
                            /\ calculate_time_decay(
                                   self, cl.candidate_ids[i]).raised # "none"
                            /\ \A j \in 1..(i - 1) :
                                   calculate_time_decay(
                                       self, cl.candidate_ids[j]).raised
                                       = "none"]).raised,
                cl.cache)
    ELSE IF \E i \in 1..Len(cl.candidate_ids) :
               ~param.val[cl.candidate_ids[i]].has_metadata
    THEN Raised("KeyError", cl.cache)
    ELSE Returned(
             SortAndSlice(
                 [i \in 1..Len(cl.candidate_ids) |->
                     AdvancedRecord(self, cl.candidate_ids[i],
                         CosineSimilarity(VecSum(rl.user_vecs),
                                          cl.candidate_vectors[i]),
                         calculate_time_decay(self,
                                              cl.candidate_ids[i]).value,
                         calculate_cluster_similarity(rl.user_clusters,
                             cl.candidate_clusters[i]))],
                 top_n),
             cl.cache)

\* lines 282-298, given the outcome of the loop over the read list
AdvancedCandidates(self, param, reads, top_n, rl) ==
    IF rl.raised # "none" THEN Raised(rl.raised, rl.cache)
    ELSE IF rl.user_vecs = <<>> THEN Returned(<<>>, rl.cache)
    ELSE IF ~SameLength(rl.user_vecs) THEN Raised("ValueError", rl.cache)
    ELSE AdvancedScore(self, param, top_n, rl,
             CandidateLoop(self.article_ids, reads, param,
                           self.article_vectors, rl.cache, self.cache_size,
                           TRUE))

AdvancedRecommend(self, param, user_reads, top_n) ==
    IF user_reads.kind = "list" /\ user_reads.reads = <<>>
    THEN Returned(<<>>, self.cache)
    ELSE IF user_reads.kind # "list" THEN Raised("TypeError", self.cache)
    ELSE AdvancedCandidates(self, param, user_reads.reads, top_n,
             ReadLoop(user_reads.reads, param, self.article_vectors,
                      self.cache, self.cache_size))

----------------------------------------------------------------------------
(* AdvancedRecommender._maximal_marginal_relevance                         *)

\* default of lambda_param, in tenths
DefaultLambda == 5

\* the values of lambda_param a caller passes, in tenths
LambdaChoices == {DefaultLambda, 0, 10}

\* cosine_similarity([query_vector], candidate_vectors)[0], in millionths
Relevance(query_vector, candidate_vectors) ==
    [i \in 1..Len(candidate_vectors) |->
        CosineSimilarity(query_vector, candidate_vectors[i])]

\* np.argmax over the scores of the candidates listed in `among`: the
\* position in `among` of the first of the largest
ArgMax(score, among) ==
    CHOOSE k \in 1..Len(among) :
        /\ \A j \in 1..Len(among) : score[among[j]] <= score[among[k]]
        /\ \A j \in 1..(k - 1) : score[among[j]] < score[among[k]]

\* faulty variant: similarity to the selected items is rewarded
MmrScoresAdding(query_vector, candidate_vectors, lambda_param, selected, remaining) ==
    [idx \in Range(remaining) |->
        lambda_param
            * CosineSimilarity(query_vector, candidate_vectors[idx])
            * Len(selected)
        + (10 - lambda_param)
            * SeqSum([s \in 1..Len(selected) |->
                         CosineSimilarity(candidate_vectors[idx],
                                          candidate_vectors[selected[s]])])]

\* lines 243-254: lambda_param * relevance - (1 - lambda_param) * diversity
\* of every remaining candidate, diversity being the mean similarity to the
\* selected ones; in ten-millionths, times the number selected
MmrScores(query_vector, candidate_vectors, lambda_param, selected, remaining) ==
    [idx \in Range(remaining) |->
        lambda_param
            * CosineSimilarity(query_vector, candidate_vectors[idx])
            * Len(selected)
        - (10 - lambda_param)
            * SeqSum([s \in 1..Len(selected) |->
                         CosineSimilarity(candidate_vectors[idx],
                                          candidate_vectors[selected[s]])])]

\* lines 241-256: the loop that selects the remaining items
RECURSIVE MmrLoop(_, _, _, _, _, _)
MmrLoop(query_vector, candidate_vectors, lambda_param, top_n, selected, remaining) ==
    IF Len(selected) < top_n /\ remaining # <<>>
    THEN MmrLoop(query_vector, candidate_vectors, lambda_param, top_n,
             Append(selected,
                    remaining[ArgMax(MmrScores(query_vector,
                                               candidate_vectors,
                                               lambda_param, selected,
                                               remaining),
                                     remaining)]),
             RemoveAt(remaining,
                      ArgMax(MmrScores(query_vector, candidate_vectors,
                                       lambda_param, selected, remaining),
                             remaining)))
    ELSE selected

\* lines 231-258: the most similar item is selected first, whatever top_n
\* is; cosine_similarity rejects an empty candidate matrix
maximal_marginal_relevance(query_vector, candidate_vectors, candidate_ids, lambda_param, top_n) ==
    IF candidate_vectors = <<>>
    THEN [ret |-> <<>>, raised |-> "ValueError"]
    ELSE [ret |->
              LET similarities == Relevance(query_vector, candidate_vectors)
                  remaining == [i \in 1..Len(candidate_ids) |-> i]
                  selected_idx == ArgMax(similarities, remaining)
                  selected ==
                      MmrLoop(query_vector, candidate_vectors, lambda_param,
                              top_n, <<selected_idx>>,
                              RemoveAt(remaining, selected_idx))
              IN  [k \in 1..Len(selected) |->
                      [article_id |-> candidate_ids[selected[k]],
                       score |-> similarities[selected[k]]]],
          raised |-> "none"]

\* the method of the class the factory constructed
recommend_for_user(self, param, user_reads, top_n) ==
    IF self.kind = "simple"
    THEN SimpleRecommend(self, param, user_reads, top_n)
    ELSE AdvancedRecommend(self, param, user_reads, top_n)

----------------------------------------------------------------------------
(* BaseRecommender.generate_all_recommendations                            *)

\* faulty variant: a user with nothing to recommend is left out of the mapping
BatchAppendSkipEmpty(user_id, r, rest) ==
    IF r.raised # "none" \/ r.ret = <<>>
    THEN [rest EXCEPT !.visited = <<user_id>> \o @]
    ELSE [rest EXCEPT !.visited = <<user_id>> \o @,
                      !.keys = <<user_id>> \o @,
                      !.recs = <<r.ret>> \o @]

\* lines 112-114: the user's list is stored, or the exception is logged
BatchAppend(user_id, r, rest) ==
    IF r.raised # "none"
    THEN [rest EXCEPT !.visited = <<user_id>> \o @]
    ELSE [rest EXCEPT !.visited = <<user_id>> \o @,
                      !.keys = <<user_id>> \o @,
                      !.recs = <<r.ret>> \o @]

\* lines 104-114: one pass over the profiles in their order; a user whose
\* call raises is left out and the loop goes on.  The cache is carried from
\* one call to the next.
RECURSIVE BatchLoop(_, _, _)
\* faulty variant: no try/except around the call, the exception ends the run
BatchStepAborting(users, self, top_n, r) ==
    IF r.raised # "none"
    THEN [keys |-> <<>>, recs |-> <<>>, visited |-> <<Head(users)>>,
          cache |-> r.cache, raised |-> r.raised]
    ELSE BatchAppend(Head(users), r,
                     BatchLoop(Tail(users), [self EXCEPT !.cache = r.cache],
                               top_n))

BatchStep(users, self, top_n, r) ==
    BatchAppend(Head(users), r,
                BatchLoop(Tail(users), [self EXCEPT !.cache = r.cache],
                          top_n))

BatchLoop(users, self, top_n) ==
    IF users = <<>>
    THEN [keys |-> <<>>, recs |-> <<>>, visited |-> <<>>,
          cache |-> self.cache, raised |-> "none"]
    ELSE BatchStep(users, self, top_n,
                   recommend_for_user(self, self.article_vectors,
                                      self.user_profiles.val[Head(users)],
                                      top_n))

\* lines 116-118: the mapping collected, written once to the output store
\* when the loop has ended; writes counts the writes the call made
BatchResult(b) ==
    [all_recommendations |->
         [keys |-> b.keys,
          val |-> [u \in Range(b.keys) |->
                     b.recs[CHOOSE i \in 1..Len(b.keys) : b.keys[i] = u]]],
     visited |-> b.visited, cache |-> b.cache, raised |-> b.raised,
     writes |-> IF b.raised = "none" THEN 1 ELSE 0]

generate_all_recommendations(self, top_n) ==
    BatchResult(BatchLoop(self.user_profiles.keys, self, top_n))

----------------------------------------------------------------------------
(* The state machine                                                       *)

\* what `last` holds when no call has been made
NoCall ==
    [op |-> "none", param |-> EmptyDict, user_reads |-> <<>>, top_n |-> 0,
     article_ids |-> <<>>, profiles |-> EmptyDict, ret |-> <<>>,
     raised |-> "none", visited |-> <<>>, out |-> EmptyDict, writes |-> 0,
     at |-> 0, looked_up |-> <<>>, query |-> <<>>, lambda |-> 0,
     candidate_ids |-> <<>>, candidate_vectors |-> <<>>]

\* no call is under way and the caller holds no result
Idle == last.op = "none"

NoOutput == [exists |-> FALSE, content |-> EmptyDict]

\* the recommender as the methods see it
Self ==
    [kind |-> kind, article_vectors |-> article_vectors,
     article_ids |-> article_ids, user_profiles |-> user_profiles,
     cache |-> cache, cache_size |-> cache_size,
     diversity_weight |-> diversity_weight,
     cluster_weight |-> cluster_weight,
     time_decay_days |-> time_decay_days, now |-> now]

\* defaults of AdvancedRecommender.__init__ (weights in tenths)
DefaultDiversityWeight == 3
DefaultClusterWeight == 2
DefaultTimeDecayDays == 30

\* (diversity_weight, cluster_weight) pairs a caller constructs with, in
\* tenths: the defaults, no blending, 1.5 with the default cluster weight,
\* and 0.8 with the default cluster weight (the two sum to 1)
WeightChoices ==
    { <<DefaultDiversityWeight, DefaultClusterWeight>>, <<0, 0>>,
      <<15, DefaultClusterWeight>>,
      <<10 - DefaultClusterWeight, DefaultClusterWeight>> }

TopNs == -1..MaxTopN

\* the profiles store of the main specification
MainProfiles ==
    { MkProfiles(ListProfile(<<"a">>), ListProfile(<<"z">>)) }

TypeOK ==
    /\ phase \in {"new", "ready", "failed"}
    /\ kind \in {"none", "simple", "advanced"}
    /\ now \in 0..MaxClock
    /\ cache_size \in 0..MaxCacheSize
    /\ Len(cache) <= cache_size

InitWith(embed_stores, profile_stores) ==
    /\ embed_file \in embed_stores
    /\ profile_file \in profile_stores
    /\ output_file = NoOutput
    /\ phase = "new"
    /\ kind = "none"
    /\ article_vectors = EmptyDict
    /\ article_ids = <<>>
    /\ vector_array = <<>>
    /\ user_profiles = EmptyDict
    /\ cache = <<>>
    /\ cache_size = 0
    /\ diversity_weight = 0
    /\ cluster_weight = 0
    /\ time_decay_days = 0
    /\ now = 0
    /\ last = NoCall

Init == InitWith(EmbedStores, MainProfiles)

\* AdvancedRecommender.__init__ lines 198-200: the weights are stored as
\* given
StoreWeights(k, w) ==
    /\ diversity_weight' = IF k = "advanced" THEN w[1] ELSE 0
    /\ cluster_weight' = IF k = "advanced" THEN w[2] ELSE 0
    /\ time_decay_days' = IF k = "advanced" THEN DefaultTimeDecayDays ELSE 0

\* the constructor, given what _load_data did: an exception leaves no object
Constructed(k, w, size, loaded) ==
    IF loaded.raised # "none"
    THEN /\ phase' = "failed"
         /\ last' = [NoCall EXCEPT !.op = "construct",
                                   !.raised = loaded.raised]
         /\ UNCHANGED <<kind, article_vectors, article_ids, vector_array,
                        user_profiles, cache_size, diversity_weight,
                        cluster_weight, time_decay_days>>
    ELSE /\ phase' = "ready"
         /\ kind' = k
         /\ article_vectors' = loaded.article_vectors
         /\ article_ids' = loaded.article_ids
         /\ vector_array' = loaded.vector_array
         /\ user_profiles' = loaded.user_profiles
         /\ cache_size' = size
         /\ StoreWeights(k, w)
         /\ last' = [NoCall EXCEPT !.op = "construct"]

\* RecommenderFactory.create_recommender and the constructors: load, then
\* wrap the lookup in the cache, then (Advanced) store the weights
Construct(k, w, size) ==
    /\ phase = "new"
    /\ Constructed(k, w, size,
                   load_data(Unloaded, embed_file, profile_file))
    /\ UNCHANGED <<embed_file, profile_file, output_file, cache, now>>

ConstructSimple ==
    \E size \in 1..MaxCacheSize : Construct("simple", <<0, 0>>, size)

ConstructAdvanced ==
    \E w \in WeightChoices, size \in 1..MaxCacheSize :
        Construct("advanced", w, size)

RecommendReturns(param, reads, top_n, r) ==
    /\ cache' = r.cache
    /\ last' = [NoCall EXCEPT !.op = "recommend_for_user",
                              !.param = param,
                              !.user_reads = reads,
                              !.top_n = top_n,
                              !.article_ids = article_ids,
                              !.ret = r.ret,
                              !.raised = r.raised,
                              !.at = now]

\* a call of recommend_for_user
\* faulty variant: the call keeps the mapping it was given as the
\* recommender's own
RecommendForUserKeeping(param, reads, top_n) ==
    /\ phase = "ready"
    /\ Idle
    /\ RecommendReturns(param, reads, top_n,
           recommend_for_user(Self, param, ListProfile(reads), top_n))
    /\ article_vectors' = param
    /\ UNCHANGED <<embed_file, profile_file, output_file, phase, kind,
                   article_ids, vector_array, user_profiles,
                   cache_size, diversity_weight, cluster_weight,
                   time_decay_days, now>>

RecommendForUser(param, reads, top_n) ==
    /\ phase = "ready"
    /\ Idle
    /\ RecommendReturns(param, reads, top_n,
           recommend_for_user(Self, param, ListProfile(reads), top_n))
    /\ UNCHANGED <<embed_file, profile_file, output_file, phase, kind,
                   article_vectors, article_ids, vector_array, user_profiles,
                   cache_size, diversity_weight, cluster_weight,
                   time_decay_days, now>>

\* the callers pass the recommender's own mapping (app.py, the batch) or
\* another one (the tests pass an empty mapping)
Recommend ==
    \E param \in {article_vectors, EmptyDict},
       reads \in SeqsUpTo(ReadIds, MaxReads), top_n \in TopNs :
        RecommendForUser(param, reads, top_n)

\* faulty variant: the run's mapping is merged into the stored one, the
\* entries of users not scored in this run are kept
GenerateAllReturnsMerging(top_n, g) ==
    /\ cache' = g.cache
    /\ output_file' =
           IF g.writes > 0
           THEN [exists |-> TRUE,
                 content |->
                     [keys |-> g.all_recommendations.keys
                               \o SelectSeq(output_file.content.keys,
                                      LAMBDA u :
                                          ~DictHas(g.all_recommendations, u)),
                      val |-> [u \in DOMAIN g.all_recommendations.val
                                     \cup DOMAIN output_file.content.val |->
                                  IF DictHas(g.all_recommendations, u)
                                  THEN g.all_recommendations.val[u]
                                  ELSE output_file.content.val[u]]]]
           ELSE output_file
    /\ last' = [NoCall EXCEPT !.op = "generate_all_recommendations",
                              !.top_n = top_n,
                              !.article_ids = article_ids,
                              !.profiles = user_profiles,
                              !.visited = g.visited,
                              !.out = g.all_recommendations,
                              !.raised = g.raised,
                              !.writes = g.writes]

GenerateAllReturns(top_n, g) ==
    /\ cache' = g.cache
    /\ output_file' =
           IF g.writes > 0
           THEN [exists |-> TRUE, content |-> g.all_recommendations]
           ELSE output_file
    /\ last' = [NoCall EXCEPT !.op = "generate_all_recommendations",
                              !.top_n = top_n,
                              !.article_ids = article_ids,
                              !.profiles = user_profiles,
                              !.visited = g.visited,
                              !.out = g.all_recommendations,
                              !.raised = g.raised,
                              !.writes = g.writes]

\* a call of generate_all_recommendations
GenerateAll(top_n) ==
    /\ phase = "ready"
    /\ Idle
    /\ GenerateAllReturns(top_n, generate_all_recommendations(Self, top_n))
    /\ UNCHANGED <<embed_file, profile_file, phase, kind, article_vectors,
                   article_ids, vector_array, user_profiles, cache_size,
                   diversity_weight, cluster_weight, time_decay_days, now>>

Batch == \E top_n \in TopNs : GenerateAll(top_n)

\* time passes
Tick ==
    /\ phase = "ready"
    /\ Idle
    /\ now < MaxClock
    /\ now' = now + 1
    /\ UNCHANGED <<embed_file, profile_file, output_file, phase, kind,
                   article_vectors, article_ids, vector_array, user_profiles,
                   cache, cache_size, diversity_weight, cluster_weight,
                   time_decay_days, last>>

\* the caller has taken the result of the last call
Return ==
    /\ ~Idle
    /\ last' = NoCall
    /\ UNCHANGED <<embed_file, profile_file, output_file, phase, kind,
                   article_vectors, article_ids, vector_array, user_profiles,
                   cache, cache_size, diversity_weight, cluster_weight,
                   time_decay_days, now>>

\* the caller keeps the result of a call while time passes
Elapse ==
    /\ phase = "ready"
    /\ last.op = "recommend_for_user"
    /\ now < MaxClock
    /\ now' = now + 1
    /\ UNCHANGED <<embed_file, profile_file, output_file, phase, kind,
                   article_vectors, article_ids, vector_array, user_profiles,
                   cache, cache_size, diversity_weight, cluster_weight,
                   time_decay_days, last>>

\* what a call served for someone else leaves behind: the cache
Served(c) ==
    /\ phase = "ready"
    /\ last.op = "recommend_for_user"
    /\ cache' = c
    /\ cache' # cache
    /\ UNCHANGED <<embed_file, profile_file, output_file, phase, kind,
                   article_vectors, article_ids, vector_array, user_profiles,
                   cache_size, diversity_weight, cluster_weight,
                   time_decay_days, now, last>>

\* the caller keeps the result of a call while another lookup is served
ServeLookup ==
    \E article_id \in ReadIds \cup {"c"} :
        Served(get_article_vector(cache, cache_size, article_vectors,
                                  article_id).cache)

\* the caller keeps the result of a call while the call of a user with one
\* read item is served
ServeCall ==
    \E article_id \in ReadIds :
        Served(recommend_for_user(Self, article_vectors,
                                  ListProfile(<<article_id>>), MaxTopN).cache)

\* single recommendation requests
Next == ConstructSimple \/ ConstructAdvanced \/ Recommend \/ Return \/ Tick

Spec == Init /\ [][Next]_vars

\* requests whose results are kept while time passes and others are served
HeldNext ==
    \/ ConstructSimple \/ ConstructAdvanced \/ Recommend \/ Return \/ Tick
    \/ Elapse \/ ServeLookup \/ ServeCall

\* the corpora of three items in which "a" and "b" have vectors of one
\* length
HeldStores ==
    {st \in EmbedStores :
        /\ st.readable
        /\ Len(st.keys) = 3
        /\ ValidArticle(st.val["a"])
        /\ ValidArticle(st.val["b"])
        /\ Len(st.val["a"].vector) = Len(st.val["b"].vector)}

HeldInit == InitWith(HeldStores, MainProfiles)

HeldSpec == HeldInit /\ [][HeldNext]_vars

\* default of BaseRecommender.__init__ and of the factory
DefaultCacheSize == 128

\* a direct call of the cached per-item lookup; the ids whose lookup
\* returned are kept, in order, with the outcome of the last lookup
Lookup(article_id, r) ==
    /\ phase = "ready"
    /\ last.op \in {"construct", "lookup"}
    /\ Len(last.looked_up) < MaxLookups
    /\ cache' = r.cache
    /\ last' = [NoCall EXCEPT !.op = "lookup",
                              !.raised = r.raised,
                              !.looked_up =
                                  IF r.raised = "none"
                                  THEN Append(last.looked_up, article_id)
                                  ELSE last.looked_up]
    /\ UNCHANGED <<embed_file, profile_file, output_file, phase, kind,
                   article_vectors, article_ids, vector_array, user_profiles,
                   cache_size, diversity_weight, cluster_weight,
                   time_decay_days, now>>

LookupAny ==
    \E article_id \in ReadIds \cup {"c"} :
        Lookup(article_id,
               get_article_vector(cache, cache_size, article_vectors,
                                  article_id))

\* construction with a cache_size given, and with the default
ConstructSized ==
    \E size \in 1..MaxLruSize : Construct("simple", <<0, 0>>, size)

ConstructDefaultSize == Construct("simple", <<0, 0>>, DefaultCacheSize)

CacheNext == ConstructSized \/ ConstructDefaultSize \/ LookupAny

CacheSpec == HeldInit /\ [][CacheNext]_vars

\* the two-item mappings the tests build in memory (sample_articles): each
\* item has a vector of three numbers and a metadata without scraped_at, and
\* no cluster
SampleItem(v) == MkItem("list", v, FALSE, 0, TRUE, "absent", 0)

SampleArticles ==
    {[keys |-> <<"a", k>>,
      val |-> [x \in {"a", k} |->
                  IF x = "a" THEN SampleItem(<<1, 2, 2>>)
                  ELSE SampleItem(<<2, 1, 2>>)]] : k \in {"b", "z"}}

\* `recommender.article_vectors = sample_articles`: the attribute is
\* assigned on the constructed object; the id list, the dense array and
\* the lookup cache are left as the load and the calls made them
Install(m) ==
    /\ phase = "ready"
    /\ Idle
    /\ article_vectors # m
    /\ article_vectors' = m
    /\ UNCHANGED <<embed_file, profile_file, output_file, phase, kind,
                   article_ids, vector_array, user_profiles, cache,
                   cache_size, diversity_weight, cluster_weight,
                   time_decay_days, now, last>>

InstallSample == \E m \in SampleArticles : Install(m)

\* the corpora in which "a" and "b" have vectors of one length, with or
\* without a third item
InstallStores ==
    {st \in EmbedStores :
        /\ st.readable
        /\ ValidArticle(st.val["a"])
        /\ ValidArticle(st.val["b"])
        /\ Len(st.val["a"].vector) = Len(st.val["b"].vector)}

InstallInit == InitWith(InstallStores, MainProfiles)

InstallNext ==
    ConstructSimple \/ ConstructAdvanced \/ InstallSample \/ Recommend
    \/ Return

InstallSpec == InstallInit /\ [][InstallNext]_vars

\* batch runs: the corpora of two items, every pair of profiles
BatchStores == {st \in EmbedStores : st.readable /\ Len(st.keys) = 2}

BatchInit == InitWith(BatchStores, ProfileStores)

BatchNext ==
    ConstructSimple \/ ConstructAdvanced \/ Batch \/ Return \/ Tick

BatchSpec == BatchInit /\ [][BatchNext]_vars

\* the stores are rewritten on disk while the recommender lives (embed.py
\* saves the embeddings file anew)
Rewrite(ef, pf) ==
    /\ phase = "ready"
    /\ Idle
    /\ <<ef, pf>> # <<embed_file, profile_file>>
    /\ embed_file' = ef
    /\ profile_file' = pf
    /\ UNCHANGED <<output_file, phase, kind, article_vectors, article_ids,
                   vector_array, user_profiles, cache, cache_size,
                   diversity_weight, cluster_weight, time_decay_days, now,
                   last>>

\* _load_data re-invoked on the constructed recommender: the attributes it
\* assigned before an exception stay assigned, and the lru_cache that
\* __init__ wrapped around the lookup is not touched
Reloaded(l) ==
    /\ phase = "ready"
    /\ Idle
    /\ article_vectors' = l.article_vectors
    /\ article_ids' = l.article_ids
    /\ vector_array' = l.vector_array
    /\ user_profiles' = l.user_profiles
    /\ last' = [NoCall EXCEPT !.op = "load", !.raised = l.raised]
    /\ UNCHANGED <<embed_file, profile_file, output_file, phase, kind, cache,
                   cache_size, diversity_weight, cluster_weight,
                   time_decay_days, now>>

Reload ==
    Reloaded(load_data([article_vectors |-> article_vectors,
                        article_ids |-> article_ids,
                        vector_array |-> vector_array,
                        user_profiles |-> user_profiles,
                        raised |-> "none"],
                       embed_file, profile_file))

\* a request as app.py makes it: the recommender's mapping as it is now
Request ==
    \E reads \in {<<"a">>, <<"b">>} :
        RecommendForUser(article_vectors, reads, MaxTopN)

\* the stores a reload may find: two items, "a" with or without a vector,
\* "b" with one of two vectors or an empty one; or an unreadable file
ReloadStores ==
    {st \in BatchStores :
        /\ st.val["a"].vkind = "absent" \/ Len(st.val["a"].vector) = 3
        /\ Len(st.val["b"].vector) <= 3}
    \cup {UnreadableStore}

ReloadProfiles == MainProfiles \cup {UnreadableStore}

RewriteAny ==
    \E ef \in ReloadStores, pf \in ReloadProfiles : Rewrite(ef, pf)

ReloadInit == InitWith(ReloadStores, ReloadProfiles)

ReloadNext ==
    \/ ConstructSimple \/ ConstructAdvanced \/ RewriteAny \/ Reload
    \/ Request \/ Return

ReloadSpec == ReloadInit /\ [][ReloadNext]_vars

\* batch runs that find the output of an earlier process in the output
\* store: a list for user "u0", who is no longer among the profiles
EarlierOutput ==
    [exists |-> TRUE,
     content |-> [keys |-> <<"u0">>,
                  val |-> [u \in {"u0"} |-> <<SimpleRecord("a", Million)>>]]]

WriteInit ==
    /\ embed_file \in BatchStores
    /\ profile_file \in ProfileStores
    /\ output_file = EarlierOutput
    /\ phase = "new"
    /\ kind = "none"
    /\ article_vectors = EmptyDict
    /\ article_ids = <<>>
    /\ vector_array = <<>>
    /\ user_profiles = EmptyDict
    /\ cache = <<>>
    /\ cache_size = 0
    /\ diversity_weight = 0
    /\ cluster_weight = 0
    /\ time_decay_days = 0
    /\ now = 0
    /\ last = NoCall

WriteSpec == WriteInit /\ [][BatchNext]_vars

\* corpora of vectors of one length in which "a" may carry the cluster
\* label -1 and "b" may carry none
LabelledMinusOne == MkItem("list", <<1, 0, 0>>, TRUE, -1, TRUE, "ok", -1)

TopicStores ==
    {MkStore(a, b, cs) :
        a \in {LabelledMinusOne} \cup {x \in ItemsA : Len(x.vector) = 3},
        b \in {x \in ItemsB : Len(x.vector) = 3},
        cs \in {<<>>} \cup {<<c>> : c \in {x \in ItemsC :
                                              /\ Len(x.vector) = 3
                                              /\ x.has_metadata
                                              /\ x.ts_kind = "ok"}}}

TopicInit == InitWith(TopicStores, MainProfiles)

TopicNext == ConstructAdvanced \/ Recommend \/ Return

TopicSpec == TopicInit /\ [][TopicNext]_vars

\* a direct call of _maximal_marginal_relevance (no method of the module
\* calls it): the candidates are the rows of the dense array of the ids
\* that are not skipped, the query is a vector of the array's dimension
QueryVectors ==
    {[i \in 1..Len(vector_array[1]) |-> IF i = k THEN 1 ELSE 0] :
        k \in 1..Len(vector_array[1])}
    \cup {[i \in 1..Len(vector_array[1]) |-> 1]}

Rerank(query, kept, lambda_param, top_n) ==
    /\ phase = "ready"
    /\ Idle
    /\ last' = [NoCall EXCEPT
                   !.op = "mmr",
                   !.query = query,
                   !.lambda = lambda_param,
                   !.top_n = top_n,
                   !.candidate_ids =
                       [i \in 1..Len(kept) |-> article_ids[kept[i]]],
                   !.candidate_vectors =
                       [i \in 1..Len(kept) |-> vector_array[kept[i]]],
                   !.ret =
                       maximal_marginal_relevance(
                           query,
                           [i \in 1..Len(kept) |-> vector_array[kept[i]]],
                           [i \in 1..Len(kept) |-> article_ids[kept[i]]],
                           lambda_param, top_n).ret,
                   !.raised =
                       maximal_marginal_relevance(
                           query,
                           [i \in 1..Len(kept) |-> vector_array[kept[i]]],
                           [i \in 1..Len(kept) |-> article_ids[kept[i]]],
                           lambda_param, top_n).raised]
    /\ UNCHANGED <<embed_file, profile_file, output_file, phase, kind,
                   article_vectors, article_ids, vector_array, user_profiles,
                   cache, cache_size, diversity_weight, cluster_weight,
                   time_decay_days, now>>

RerankAny ==
    /\ phase = "ready"
    /\ \E query \in QueryVectors,
          kept \in {s \in SeqsUpTo(1..Len(article_ids), Len(article_ids)) :
                       \A i, j \in 1..Len(s) : i < j => s[i] < s[j]},
          lambda_param \in LambdaChoices, top_n \in 0..MaxPicks :
           Rerank(query, kept, lambda_param, top_n)

MmrNext == ConstructAdvanced \/ RerankAny \/ Return

MmrSpec == HeldInit /\ [][MmrNext]_vars

\* single calls and batch runs on one recommender, in any order
MixedInit == InitWith(BatchStores, MainProfiles)

MixedNext ==
    \/ ConstructSimple \/ ConstructAdvanced \/ Recommend \/ Batch \/ Return
    \/ Tick

MixedSpec == MixedInit /\ [][MixedNext]_vars

----------------------------------------------------------------------------
(* Properties of recommend_for_user, checked under Spec on the result      *)
(* held in `last`                                                          *)

Recommended == last.op = "recommend_for_user" /\ last.raised = "none"

\* the call was given the recommender's own mapping
OwnMapping == last.param = article_vectors

ReturnedIds == {last.ret[i].article_id : i \in 1..Len(last.ret)}

\* the corpus ids that are not in the read list
CandidateIds ==
    {aid \in Range(last.article_ids) : ~Contains(last.user_reads, aid)}

candidateCount == Cardinality(CandidateIds)

\* every candidate with its score: the list the call builds before slicing
AllScored ==
    recommend_for_user(Self, last.param, ListProfile(last.user_reads),
                       Len(last.article_ids)).ret

\* C1: no recommendation returned by recommend_for_user carries an item id
\* that occurs in the read list, for either strategy, any corpus, any read
\* list and any top_n.
C1_NoReadItemReturned ==
    Recommended =>
        \A i \in 1..Len(last.ret) :
            ~Contains(last.user_reads, last.ret[i].article_id)

\* a call that read a corpus item and returned recommendations
C1_Witness ==
    /\ Recommended
    /\ Len(last.ret) > 0
    /\ \E i \in 1..Len(last.user_reads) :
           Contains(last.article_ids, last.user_reads[i])

\* C2 as stated: for every top_n the caller passes and every non-empty
\* candidate set, the returned list has at most min(top_n, candidateCount)
\* entries.
C2_LengthAtMostMin ==
    (Recommended /\ candidateCount > 0) =>
        Len(last.ret) <= Min(last.top_n, candidateCount)

\* C2 amended: for every top_n >= 0 and every non-empty candidate set, the
\* returned list has at most min(top_n, candidateCount) entries.
C2_LengthAtMostMinNonNegative ==
    (Recommended /\ candidateCount > 0 /\ last.top_n >= 0) =>
        Len(last.ret) <= Min(last.top_n, candidateCount)

\* a call that had more candidates than top_n and returned top_n of them
C2_Witness ==
    /\ Recommended
    /\ last.top_n >= 1
    /\ candidateCount > last.top_n
    /\ Len(last.ret) = last.top_n

\* C4: the returned list is the top N by score, descending: the reported
\* scores are non-increasing, and no candidate left out of the list has a
\* score strictly higher than a returned one.
C4_TopNByScore ==
    Recommended =>
        /\ \A i \in 1..(Len(last.ret) - 1) :
               last.ret[i].score >= last.ret[i + 1].score
        /\ \A i \in 1..Len(last.ret), j \in 1..Len(AllScored) :
               AllScored[j].article_id \notin ReturnedIds
                   => AllScored[j].score <= last.ret[i].score

\* a call that returned one candidate and left out another of strictly
\* lower score which comes first in the corpus
C4_Witness ==
    /\ Recommended
    /\ last.article_ids = <<"a", "b", "c">>
    /\ Len(last.ret) = 1
    /\ last.ret[1].article_id = "c"
    /\ \E j \in 1..Len(AllScored) :
           /\ AllScored[j].article_id = "b"
           /\ AllScored[j].score < last.ret[1].score

\* some read id is present in the corpus
SomeReadInCorpus ==
    \E i \in 1..Len(last.user_reads) :
        Contains(last.article_ids, last.user_reads[i])

\* C3: when the user has at least one read item present in the corpus and
\* fewer than top_n candidates exist, recommend_for_user returns all of
\* them: the returned ids are the corpus ids not in the read list, each
\* exactly once.
C3_AllCandidatesReturned ==
    (/\ last.op = "recommend_for_user"
     /\ OwnMapping
     /\ SomeReadInCorpus
     /\ candidateCount < last.top_n) =>
        /\ last.raised = "none"
        /\ ReturnedIds = CandidateIds
        /\ Len(last.ret) = candidateCount

\* C5: recommend_for_user returns [] without raising when the read list is
\* empty, when none of the read ids is present in the corpus, and when
\* every corpus item is in the read list.
C5_NothingToRecommendIsEmptyList ==
    (/\ last.op = "recommend_for_user"
     /\ OwnMapping
     /\ \/ last.user_reads = <<>>
        \/ ~SomeReadInCorpus
        \/ candidateCount = 0) =>
        /\ last.raised = "none"
        /\ last.ret = <<>>

\* C6: recommend_for_user on an Advanced recommender with an empty article
\* mapping and an empty read list raises ValueError.
C6_EmptyMappingRaisesValueError ==
    (/\ last.op = "recommend_for_user"
     /\ kind = "advanced"
     /\ last.param = EmptyDict
     /\ last.user_reads = <<>>) =>
        last.raised = "ValueError"

\* C7: constructing an Advanced recommender whose diversity_weight +
\* cluster_weight exceeds 1 fails, so every Advanced recommender that
\* exists has diversity_weight + cluster_weight <= 1 (10 tenths).
C7_WeightsSumAtMostOne ==
    (phase = "ready" /\ kind = "advanced") =>
        diversity_weight + cluster_weight <= 10

\* C10: after a successful load every corpus id's vector, as the per-item
\* lookup returns it, has exactly D entries, D being the dimension of the
\* dense array; so recommend_for_user over a corpus that holds an item
\* stored with a shorter or longer vector raises no ValueError.
C10_LookupHasCommonDimension ==
    /\ phase = "ready" =>
           \A i \in 1..Len(article_ids) :
               Len(get_article_vector(cache, cache_size, article_vectors,
                                      article_ids[i]).vector)
                   = Len(vector_array[1])
    /\ (last.op = "recommend_for_user" /\ OwnMapping) =>
           last.raised # "ValueError"

----------------------------------------------------------------------------
(* Properties of generate_all_recommendations, checked under BatchSpec     *)

BatchDone == last.op = "generate_all_recommendations"

\* what recommend_for_user does for the profile of user u
UserResult(u) ==
    recommend_for_user(Self, article_vectors, last.profiles.val[u],
                       last.top_n)

UserRaises(u) == UserResult(u).raised # "none"

\* the profile of u is a non-empty list of ids none of which is in the corpus
OnlyUnknownIds(u) ==
    /\ last.profiles.val[u].kind = "list"
    /\ last.profiles.val[u].reads # <<>>
    /\ \A i \in 1..Len(last.profiles.val[u].reads) :
           ~Contains(last.article_ids, last.profiles.val[u].reads[i])

\* C8: an exception raised while scoring one user never aborts the batch:
\* the loop visits every user of the profiles exactly once, each user scored
\* without error is in the output with their list, a failing user is left
\* out, and the result is persisted once, after the last user.
C8_BatchSurvivesFailingUser ==
    BatchDone =>
        /\ last.raised = "none"
        /\ last.visited = last.profiles.keys
        /\ \A u \in Range(last.profiles.keys) :
               IF UserRaises(u) THEN ~DictHas(last.out, u)
               ELSE /\ DictHas(last.out, u)
                    /\ last.out.val[u] = UserResult(u).ret
        /\ last.writes = 1
        /\ output_file = [exists |-> TRUE, content |-> last.out]

\* a batch whose first user failed and whose second user got recommendations
C8_Witness ==
    /\ BatchDone
    /\ UserRaises(last.profiles.keys[1])
    /\ DictHas(last.out, last.profiles.keys[2])
    /\ last.out.val[last.profiles.keys[2]] # <<>>

\* C9 as stated: a user whose profile references only item ids unknown to
\* the corpus has no key in the output mapping, and the run does not end
\* with a thrown error.
C9_UnknownOnlyUserAbsent ==
    BatchDone =>
        \A u \in Range(last.profiles.keys) :
            OnlyUnknownIds(u) =>
                ~DictHas(last.out, u) /\ last.raised = "none"

\* C9 amended: such a user has a key in the output mapping, with an empty
\* list, and the run does not end with a thrown error.
C9_UnknownOnlyUserHasEmptyList ==
    BatchDone =>
        \A u \in Range(last.profiles.keys) :
            OnlyUnknownIds(u) =>
                /\ DictHas(last.out, u)
                /\ last.out.val[u] = <<>>
                /\ last.raised = "none"
                /\ output_file.content = last.out

\* a batch with such a user beside a user who got recommendations
C9_Witness ==
    /\ BatchDone
    /\ \E u, v \in Range(last.profiles.keys) :
           /\ OnlyUnknownIds(u)
           /\ DictHas(last.out, v)
           /\ last.out.val[v] # <<>>

----------------------------------------------------------------------------
(* Properties of _load_data, checked under Spec on the constructed engine  *)

\* the stored items that have a non-empty list under 'vector', in the order
\* of the store
SurvivingIds == SelectSeq(embed_file.keys, LAMBDA k :
                    /\ embed_file.val[k].vkind = "list"
                    /\ embed_file.val[k].vector # <<>>)

\* the dimension D: the length of the first surviving item's stored vector
D == Len(embed_file.val[SurvivingIds[1]].vector)

\* C11: load takes D from the first surviving item and, without raising,
\* builds an array with one row per surviving item in id-list order, every
\* row of exactly D entries: the stored vector followed by zeros when it is
\* shorter than D, its first D entries when it is longer, the stored vector
\* itself when it has length D.
C11_DenseArrayRepaired ==
    /\ (phase # "new" /\ embed_file.readable /\ SurvivingIds # <<>>)
           => phase = "ready"
    /\ phase = "ready" =>
           /\ Len(vector_array) = Len(article_ids)
           /\ \A i \in 1..Len(article_ids) :
                  LET stored == embed_file.val[article_ids[i]].vector
                  IN  /\ Len(vector_array[i]) = D
                      /\ \A j \in 1..D :
                             vector_array[i][j] =
                                 IF j <= Len(stored) THEN stored[j] ELSE 0
                      /\ Len(stored) = D => vector_array[i] = stored

\* an engine loaded from a store with a shorter and a longer vector than D
C11_Witness ==
    /\ phase = "ready"
    /\ \E i, j \in 1..Len(article_ids) :
           /\ Len(embed_file.val[article_ids[i]].vector) < D
           /\ Len(embed_file.val[article_ids[j]].vector) > D

\* C12: load excludes exactly the items whose vector field is absent, is
\* not a sequence, or is empty, and keeps every other item as stored; it
\* fails with ValueError if and only if no item survives.
C12_FilterExactAndEmptyCorpusFails ==
    (phase # "new" /\ embed_file.readable) =>
        /\ phase = "ready" =>
               /\ article_ids = SurvivingIds
               /\ article_vectors.keys = SurvivingIds
               /\ DOMAIN article_vectors.val = Range(SurvivingIds)
               /\ \A k \in Range(SurvivingIds) :
                      article_vectors.val[k] = embed_file.val[k]
        /\ phase = "failed" <=> SurvivingIds = <<>>
        /\ (last.op = "construct" /\ phase = "failed")
               => last.raised = "ValueError"

\* an engine that dropped an item of the store and kept two
C12_Witness ==
    /\ phase = "ready"
    /\ Len(article_ids) < Len(embed_file.keys)
    /\ Len(article_ids) >= 2

----------------------------------------------------------------------------
(* Properties of the freshness component, checked under Spec               *)

AdvancedCall == last.op = "recommend_for_user" /\ kind = "advanced"

\* every vector of the corpus has the length of the first
CorpusUniform ==
    \A i \in 1..Len(article_ids) :
        Len(article_vectors.val[article_ids[i]].vector)
            = Len(article_vectors.val[article_ids[1]].vector)

\* the item has no metadata, no scraped_at, or a scraped_at string that is
\* not a 'YYYY-MM-DD HH:MM:SS' timestamp
NoTimestamp(aid) ==
    \/ ~article_vectors.val[aid].has_metadata
    \/ article_vectors.val[aid].ts_kind \in {"absent", "bad"}

\* C13: whenever a candidate's scraped_at is missing (no scraped_at key, or
\* no metadata at all) or is not parseable as a timestamp, the Advanced call
\* completes and the item is scored with a freshness component of exactly
\* 1.0 (10000 ten-thousandths).  Stated for corpora of one common dimension
\* whose scraped_at values are strings, a user with a read item in the
\* corpus, and top_n >= 1.
C13_MissingTimestampIsFresh ==
    (/\ AdvancedCall
     /\ OwnMapping
     /\ last.top_n >= 1
     /\ CorpusUniform
     /\ SomeReadInCorpus
     /\ \A aid \in CandidateIds :
            article_vectors.val[aid].ts_kind # "notstring"
     /\ \E aid \in CandidateIds : NoTimestamp(aid)) =>
        /\ last.raised = "none"
        /\ \A aid \in CandidateIds :
               NoTimestamp(aid) =>
                   \E j \in 1..Len(AllScored) :
                       /\ AllScored[j].article_id = aid
                       /\ AllScored[j].freshness = 10000

\* two items that differ only in scraped_at, both with a timestamp
Twins(x, y) ==
    /\ article_vectors.val[x].has_metadata
    /\ article_vectors.val[x].ts_kind = "ok"
    /\ [article_vectors.val[x] EXCEPT !.scraped_at = 0]
           = [article_vectors.val[y] EXCEPT !.scraped_at = 0]

\* C14 as stated: of two otherwise-identical candidates scored in the same
\* call, the one with the more recent scraped_at has a strictly higher
\* freshness component.
C14_MoreRecentStrictlyFresher ==
    (AdvancedCall /\ Recommended /\ OwnMapping) =>
        \A i, j \in 1..Len(last.ret) :
            (/\ Twins(last.ret[i].article_id, last.ret[j].article_id)
             /\ article_vectors.val[last.ret[i].article_id].scraped_at
                    > article_vectors.val[last.ret[j].article_id].scraped_at)
                => last.ret[i].freshness > last.ret[j].freshness

\* C14 amended: the one with the more recent scraped_at has a freshness
\* component that is at least as high.
C14_MoreRecentNotLessFresh ==
    (AdvancedCall /\ Recommended /\ OwnMapping) =>
        \A i, j \in 1..Len(last.ret) :
            (/\ Twins(last.ret[i].article_id, last.ret[j].article_id)
             /\ article_vectors.val[last.ret[i].article_id].scraped_at
                    > article_vectors.val[last.ret[j].article_id].scraped_at)
                => last.ret[i].freshness >= last.ret[j].freshness

\* a call that returned two such candidates, the more recent one with the
\* strictly higher freshness
C14_Witness ==
    /\ AdvancedCall
    /\ Recommended
    /\ OwnMapping
    /\ \E i, j \in 1..Len(last.ret) :
           /\ Twins(last.ret[i].article_id, last.ret[j].article_id)
           /\ article_vectors.val[last.ret[i].article_id].scraped_at
                  > article_vectors.val[last.ret[j].article_id].scraped_at
           /\ last.ret[i].freshness > last.ret[j].freshness

----------------------------------------------------------------------------
(* Idempotence, checked under HeldSpec: the caller holds the result of a   *)
(* call in `last` while time passes and other requests are served          *)

\* the same call made again now
Again ==
    recommend_for_user(Self, last.param, ListProfile(last.user_reads),
                       last.top_n)

\* the item ids of a list of records, in order, each with its score
IdsAndScores(recs) ==
    [i \in 1..Len(recs) |-> <<recs[i].article_id, recs[i].score>>]

\* every item's freshness is now what it was when the call was made
SameFreshness ==
    \A i \in 1..Len(article_ids) :
        calculate_time_decay(Self, article_ids[i])
            = calculate_time_decay([Self EXCEPT !.now = last.at],
                                   article_ids[i])

----------------------------------------------------------------------------
(* Properties of the weighted score, checked under Spec                    *)

\* what SimpleRecommender.recommend_for_user does over the same data for
\* the same arguments
SimpleTwin ==
    SimpleRecommend(Self, last.param, ListProfile(last.user_reads),
                    last.top_n)

\* C16: an Advanced recommender with diversity_weight = 0 and
\* cluster_weight = 0 returns the same item ids, in the same order, with the
\* same scores as the Simple recommender over the same data, for every
\* corpus, read list and top_n: it returns a list whenever Simple does, and
\* the same one.
C16_ZeroWeightsSameAsSimple ==
    (AdvancedCall /\ diversity_weight = 0 /\ cluster_weight = 0) =>
        /\ SimpleTwin.raised = "none" <=> last.raised = "none"
        /\ IdsAndScores(last.ret) = IdsAndScores(SimpleTwin.ret)

\* C17: with diversity_weight + cluster_weight equal to exactly 1 (10
\* tenths) construction of the Advanced recommender succeeds (construction
\* fails only when the load does) and the semantic term contributes 0: two
\* candidates of one call with the same freshness and topic components get
\* the same final score whatever their semantic similarity.
C17_UnitWeightsDropSemantic ==
    /\ (last.op = "construct" /\ phase = "failed") =>
           load_data(Unloaded, embed_file, profile_file).raised # "none"
    /\ (AdvancedCall /\ Recommended
        /\ diversity_weight + cluster_weight = 10) =>
           \A i, j \in 1..Len(last.ret) :
               (/\ last.ret[i].freshness = last.ret[j].freshness
                /\ last.ret[i].topic = last.ret[j].topic) =>
                   last.ret[i].score = last.ret[j].score

C17_Witness ==
    /\ AdvancedCall
    /\ Recommended
    /\ diversity_weight + cluster_weight = 10
    /\ diversity_weight > 0
    /\ cluster_weight > 0
    /\ \E i, j \in 1..Len(last.ret) :
           /\ last.ret[i].semantic # last.ret[j].semantic
           /\ last.ret[i].freshness = last.ret[j].freshness
           /\ last.ret[i].topic = last.ret[j].topic
           /\ last.ret[i].score = last.ret[j].score
           /\ last.ret[i].score > 0

----------------------------------------------------------------------------
(* A mapping installed on the constructed recommender, checked under       *)
(* InstallSpec                                                             *)

\* the item of a two-item mapping that is not k
OtherKey(m, k) == IF m.keys[1] = k THEN m.keys[2] ELSE m.keys[1]

\* C18: given a mapping of two items that was installed on the recommender
\* after construction and a read list holding one of them, with top_n = 1,
\* recommend_for_user returns exactly one recommendation and that record's
\* `id` field names the other item.
C18_InstalledPairRecommendsOther ==
    (/\ last.op = "recommend_for_user"
     /\ last.param \in SampleArticles
     /\ OwnMapping
     /\ Len(last.user_reads) = 1
     /\ Contains(last.param.keys, last.user_reads[1])
     /\ last.top_n = 1) =>
        /\ last.raised = "none"
        /\ Len(last.ret) = 1
        /\ "id" \in last.ret[1].keys
        /\ last.ret[1].article_id = OtherKey(last.param, last.user_reads[1])

----------------------------------------------------------------------------
(* The lookup cache, checked under CacheSpec                               *)

\* the ids of a lookup history without their earlier occurrences: the
\* distinct ids, least recently used first
RECURSIVE LastOccurrences(_)
LastOccurrences(h) ==
    IF h = <<>> THEN <<>>
    ELSE IF Contains(Tail(h), Head(h)) THEN LastOccurrences(Tail(h))
    ELSE <<Head(h)>> \o LastOccurrences(Tail(h))

\* the `size` most recently used ids of a history, least recent first
LruKeys(h, size) ==
    SubSeq(LastOccurrences(h),
           Max(1, Len(LastOccurrences(h)) - size + 1),
           Len(LastOccurrences(h)))

CacheKeys == [i \in 1..Len(cache) |-> cache[i].key]

\* C19: after any sequence of per-item lookups the cache holds at most
\* cache_size entries (128 when none is given), and they are the cache_size
\* most recently used ids in order of use: a lookup of an uncached id into
\* a full cache evicts the least recently used entry, and a hit refreshes
\* the entry's recency.
C19_CacheIsBoundedLru ==
    (phase = "ready" /\ last.op \in {"construct", "lookup"}) =>
        /\ cache_size \in 1..MaxLruSize \cup {DefaultCacheSize}
        /\ Len(cache) <= cache_size
        /\ CacheKeys = LruKeys(last.looked_up, cache_size)

\* a hit on the older of two entries, then a miss into the full cache: the
\* entry that was not hit is the one evicted
C19_Witness ==
    /\ last.op = "lookup"
    /\ cache_size = 2
    /\ last.looked_up = <<"a", "b", "a", "c">>
    /\ CacheKeys = <<"a", "c">>

----------------------------------------------------------------------------
(* What a recommendation call leaves alone, checked under MixedSpec        *)

\* the step is a call of recommend_for_user or generate_all_recommendations
CallStep ==
    /\ Idle
    /\ last'.op \in {"recommend_for_user", "generate_all_recommendations"}

\* C20: recommendation never mutates corpus state: every call of
\* recommend_for_user and of generate_all_recommendations leaves the item
\* mapping, the id list, the dense vector array and the user profiles (and
\* the configuration) as they were; of the engine's state only the lookup
\* cache may change.
C20_CallsLeaveCorpusAlone ==
    [][CallStep =>
           UNCHANGED <<article_vectors, article_ids, vector_array,
                       user_profiles, kind, cache_size, diversity_weight,
                       cluster_weight, time_decay_days>>]_vars

\* a batch run that wrote its output and filled the cache: the corpus
\* state is still what the load produced
C20_Witness ==
    /\ last.op = "generate_all_recommendations"
    /\ output_file.exists
    /\ cache # <<>>
    /\ article_vectors
           = load_data(Unloaded, embed_file, profile_file).article_vectors
    /\ article_ids = load_data(Unloaded, embed_file, profile_file).article_ids
    /\ user_profiles
           = load_data(Unloaded, embed_file, profile_file).user_profiles

----------------------------------------------------------------------------
(* Reloading the corpus, checked under ReloadSpec                          *)

\* C21: reload replaces the corpus wholesale: a recommendation request made
\* around a re-invocation of the loader observes one complete snapshot,
\* never the item mapping of one snapshot together with the id list of
\* another, and never items that the load filter excludes: the mapping it
\* is given holds exactly the ids of the id list it enumerates, each with a
\* non-empty list vector.
C21_RequestSeesOneSnapshot ==
    (last.op = "recommend_for_user" /\ OwnMapping) =>
        /\ last.param.keys = last.article_ids
        /\ \A k \in DOMAIN last.param.val : ValidArticle(last.param.val[k])

----------------------------------------------------------------------------
(* The output store, checked under WriteSpec                               *)

\* the users of the run whose call did not raise, in profile order
ScoredUsers == SelectSeq(last.profiles.keys, LAMBDA u : ~UserRaises(u))

\* C22: the output store is written wholesale on each batch run: after
\* generate_all_recommendations completes, the persisted mapping holds
\* exactly the users scored in this run, each with the list of this run,
\* and no entry of an earlier output remains.
C22_OutputHoldsThisRunOnly ==
    (BatchDone /\ last.raised = "none") =>
        /\ output_file.exists
        /\ output_file.content.keys = ScoredUsers
        /\ DOMAIN output_file.content.val = Range(ScoredUsers)
        /\ \A u \in Range(ScoredUsers) :
               output_file.content.val[u] = UserResult(u).ret

\* a run that scored one user and dropped the other, over a store that held
\* an earlier output
C22_Witness ==
    /\ BatchDone
    /\ last.raised = "none"
    /\ Len(ScoredUsers) = 1
    /\ output_file.content.val[ScoredUsers[1]] # <<>>
    /\ ~DictHas(output_file.content, "u0")

----------------------------------------------------------------------------
(* The components of the Advanced score, checked under Spec                *)

\* the read vectors and the cluster history of the call, as its first loop
\* collects them
History ==
    ReadLoop(last.user_reads, last.param, article_vectors, <<>>, 0)

\* the three components of item aid for the call, in millionths
SemanticOf(aid) ==
    CosineSimilarity(VecSum(History.user_vecs),
                     article_vectors.val[aid].vector)

FreshnessOf(aid) == calculate_time_decay(Self, aid).value

TopicOf(aid) ==
    calculate_cluster_similarity(
        History.user_clusters,
        IF last.param.val[aid].has_cluster THEN last.param.val[aid].cluster
        ELSE -1)

\* C23: for every candidate returned by the Advanced recommender the final
\* score is semantic * (1 - diversity_weight - cluster_weight)
\* + freshness * diversity_weight + topic * cluster_weight (weights in
\* tenths, components in millionths, the score rounded to four decimals),
\* computed from that candidate's own components, and the breakdown reports
\* those same three components.
C23_ScoreIsWeightedSumOfOwnComponents ==
    (AdvancedCall /\ Recommended /\ OwnMapping) =>
        \A i \in 1..Len(last.ret) :
            /\ last.ret[i].semantic
                   = RoundTo4(SemanticOf(last.ret[i].article_id), 100)
            /\ last.ret[i].freshness
                   = RoundTo4(FreshnessOf(last.ret[i].article_id), 100)
            /\ last.ret[i].topic
                   = RoundTo4(TopicOf(last.ret[i].article_id), 100)
            /\ last.ret[i].score
                   = RoundTo4(
                         SemanticOf(last.ret[i].article_id)
                             * (10 - diversity_weight - cluster_weight)
                         + FreshnessOf(last.ret[i].article_id)
                             * diversity_weight
                         + TopicOf(last.ret[i].article_id) * cluster_weight,
                         1000)

\* a call with the default weights that returned two candidates, the first
\* with three components that all differ from 0 and from each other
C23_Witness ==
    /\ AdvancedCall
    /\ Recommended
    /\ OwnMapping
    /\ diversity_weight = DefaultDiversityWeight
    /\ cluster_weight = DefaultClusterWeight
    /\ Len(last.ret) = 2
    /\ last.ret[1].semantic > 0
    /\ last.ret[1].topic > 0
    /\ last.ret[1].freshness # last.ret[1].topic
    /\ last.ret[1].freshness # last.ret[1].semantic
    /\ last.ret[1].semantic # last.ret[1].topic
    /\ last.ret[1].freshness # last.ret[2].freshness

\* C24: the topic component of a candidate equals the number of
\* occurrences of the candidate's cluster label in the user's cluster
\* history divided by the history length, and is 0 when the history is
\* empty or when the candidate has no cluster label, whatever integer
\* labels the history contains.
C24_TopicIsShareOfHistory ==
    (AdvancedCall /\ Recommended /\ OwnMapping) =>
        \A i \in 1..Len(last.ret) :
            last.ret[i].topic
                = IF \/ History.user_clusters = <<>>
                     \/ ~last.param.val[last.ret[i].article_id].has_cluster
                  THEN 0
                  ELSE RoundTo4(
                           (Count(History.user_clusters,
                                  last.param.val[
                                      last.ret[i].article_id].cluster)
                                * Million)
                               \div Len(History.user_clusters),
                           100)

----------------------------------------------------------------------------
(* Order among equal scores, checked under Spec                            *)

\* x is enumerated before y in the corpus id list of the call
EnumeratedBefore(x, y) ==
    \E p, q \in 1..Len(last.article_ids) :
        p < q /\ last.article_ids[p] = x /\ last.article_ids[q] = y

\* C25: ties are broken by enumeration order, for both strategies: returned
\* candidates of equal reported score stand in the order in which the
\* corpus id list enumerates them, and a candidate left out by the slice is
\* enumerated after every returned candidate of the same score.
C25_TiesKeepEnumerationOrder ==
    Recommended =>
        /\ \A i, j \in 1..Len(last.ret) :
               (i < j /\ last.ret[i].score = last.ret[j].score) =>
                   EnumeratedBefore(last.ret[i].article_id,
                                    last.ret[j].article_id)
        /\ \A i \in 1..Len(last.ret), j \in 1..Len(AllScored) :
               (/\ AllScored[j].article_id \notin ReturnedIds
                /\ AllScored[j].score = last.ret[i].score) =>
                   EnumeratedBefore(last.ret[i].article_id,
                                    AllScored[j].article_id)

\* two candidates of equal score, both returned by the Advanced strategy
\* with weights that count all three components
C25_Witness ==
    /\ Recommended
    /\ AdvancedCall
    /\ diversity_weight = DefaultDiversityWeight
    /\ Len(last.ret) = 2
    /\ last.ret[1].score = last.ret[2].score
    /\ last.ret[1].score # 0
    /\ EnumeratedBefore(last.ret[1].article_id, last.ret[2].article_id)

----------------------------------------------------------------------------
(* _maximal_marginal_relevance, checked under MmrSpec                      *)

\* the vector of the candidate that was picked k-th
PickVector(k) ==
    last.candidate_vectors[
        CHOOSE i \in 1..Len(last.candidate_ids) :
            last.candidate_ids[i] = last.ret[k].article_id]

\* lambda * relevance - (1 - lambda) * (mean similarity to the first k - 1
\* picks) of a candidate vector v, in ten-millionths, times k - 1
MarginalRelevance(v, k) ==
    last.lambda * CosineSimilarity(last.query, v) * (k - 1)
    - (10 - last.lambda)
        * SeqSum([s \in 1..(k - 1) |-> CosineSimilarity(v, PickVector(s))])

\* C26: _maximal_marginal_relevance selects greedily: its first pick is a
\* candidate with the highest similarity to the query vector, every later
\* pick is a not-yet-selected candidate that maximizes
\* lambda * relevance - (1 - lambda) * (mean similarity to the candidates
\* already selected), and the score returned with each pick is that
\* candidate's own relevance to the query.
C26_MmrSelectsGreedily ==
    (last.op = "mmr" /\ last.raised = "none" /\ last.ret # <<>>) =>
        /\ \A i \in 1..Len(last.candidate_ids) :
               CosineSimilarity(last.query, last.candidate_vectors[i])
                   <= CosineSimilarity(last.query, PickVector(1))
        /\ \A k \in 2..Len(last.ret) :
               /\ \A s \in 1..(k - 1) :
                      last.ret[s].article_id # last.ret[k].article_id
               /\ \A i \in 1..Len(last.candidate_ids) :
                      (\A s \in 1..(k - 1) :
                           last.ret[s].article_id # last.candidate_ids[i])
                          => MarginalRelevance(last.candidate_vectors[i], k)
                                 <= MarginalRelevance(PickVector(k), k)
        /\ \A k \in 1..Len(last.ret) :
               /\ Contains(last.candidate_ids, last.ret[k].article_id)
               /\ last.ret[k].score
                      = CosineSimilarity(last.query, PickVector(k))

\* three picks with the default lambda, the second of which is less
\* relevant than the third: it was preferred for being unlike the first
C26_Witness ==
    /\ last.op = "mmr"
    /\ last.raised = "none"
    /\ last.lambda = DefaultLambda
    /\ Len(last.ret) = 3
    /\ last.ret[2].score < last.ret[3].score
    /\ last.ret[3].score <= last.ret[1].score

\* C27: for every target count N >= 0 and every candidate list,
\* _maximal_marginal_relevance terminates and returns exactly
\* min(N, number of candidates) picks, no candidate appearing twice.
C27_MmrReturnsMinOfNAndCandidates ==
    (last.op = "mmr" /\ last.top_n >= 0) =>
        /\ last.raised = "none"
        /\ Len(last.ret) = Min(last.top_n, Len(last.candidate_ids))
        /\ \A i, j \in 1..Len(last.ret) :
               i # j => last.ret[i].article_id # last.ret[j].article_id

----------------------------------------------------------------------------
(* The lookup cache and the corpus across reloads, checked under           *)
(* ReloadSpec                                                              *)

\* C28: cache coherence: after any sequence of recommendation calls and
\* corpus replacements, when the recommender holds the corpus that a load
\* of the current stores produces, the per-item lookup for an id of the
\* corpus returns the vector that this corpus holds for that id; a vector
\* cached from an earlier corpus is never served.
C28_LookupServesCurrentCorpus ==
    (/\ phase = "ready"
     /\ load_data(Unloaded, embed_file, profile_file).raised = "none"
     /\ article_vectors
            = load_data(Unloaded, embed_file, profile_file).article_vectors) =>
        \A aid \in DOMAIN article_vectors.val :
            article_vectors.val[aid].vkind = "list" =>
                get_article_vector(cache, cache_size, article_vectors,
                                   aid).vector
                    = article_vectors.val[aid].vector

\* C29: a load that fails leaves the engine's corpus state as it was before
\* the call: item mapping, id list, dense array and user profiles are
\* unchanged.
C29_FailedLoadChangesNothing ==
    [][(phase = "ready" /\ last'.op = "load" /\ last'.raised # "none") =>
           UNCHANGED <<article_vectors, article_ids, vector_array,
                       user_profiles>>]_vars

----------------------------------------------------------------------------
(* The range of the freshness component, checked under Spec                *)

\* C30: for every corpus item with a parseable scraped_at, every current
\* time and every positive time_decay_days, the freshness computed by
\* _calculate_time_decay lies in (0, 1] (in millionths: 1..Million): the
\* 1.0 of an item without timestamp is the maximum any item can receive.
C30_FreshnessAtMostOne ==
    (phase = "ready" /\ kind = "advanced" /\ time_decay_days > 0) =>
        \A aid \in DOMAIN article_vectors.val :
            (/\ article_vectors.val[aid].has_metadata
             /\ article_vectors.val[aid].ts_kind = "ok") =>
                /\ calculate_time_decay(Self, aid).raised = "none"
                /\ calculate_time_decay(Self, aid).value > 0
                /\ calculate_time_decay(Self, aid).value <= Million

====
